---- MODULE Spec2Model ----
(***************************************************************************)
(* A model of the rysk RV64I emulator: DRAM (src/src/dram.rs), the bus     *)
(* (src/src/bus.rs) and the CPU's fetch/decode/execute loop                *)
(* (src/src/cpu.rs).                                                       *)
(*                                                                         *)
(* A u64 is the tuple of its eight bytes, least significant first (so     *)
(* 0x1122334455667788 is <<136, 119, 102, 85, 68, 51, 34, 17>>): TLC's     *)
(* integers are 32 bits wide, so 64-bit values cannot be numbers.  Small   *)
(* quantities (bytes, register numbers, CSR addresses, DRAM indices below  *)
(* DRAM_SIZE) are numbers.                                                 *)
(* The two large arrays, Dram.dram (128 MiB) and Cpu.csrs (4096 slots),    *)
(* are kept as the finite map of their non-zero elements; every element    *)
(* outside the map is 0.                                                   *)
(***************************************************************************)
EXTENDS Integers, Sequences, FiniteSets, TLC

VARIABLES regs, pc, dram, reservations, csrs, elapsed, inst, status, calls

vars == <<regs, pc, dram, reservations, csrs, elapsed, inst, status, calls>>

cpuVars == <<regs, pc, csrs, elapsed, inst, status>>

----------------------------------------------------------------------------
(* 64-bit unsigned integers                                                *)

XLEN == 64

ByteIx == 1..(XLEN \div 8)

\* bit i of v
Bit(v, i) == (v[(i \div 8) + 1] \div (2 ^ (i % 8))) % 2

Zero == [k \in ByteIx |-> 0]

\* the u64 whose bits lo..hi are set, e.g. Mask(20, 31) = 0xfff00000
Mask(lo, hi) ==
    [k \in ByteIx |->
        LET l == IF lo > 8 * k - 8 THEN lo - (8 * k - 8) ELSE 0
            h == IF hi < 8 * k - 1 THEN hi - (8 * k - 8) ELSE 7
        IN  IF l > h THEN 0 ELSE (2 ^ (h + 1)) - (2 ^ l)]

\* `n as u64` for a number n < 2^31
FromNat(n) == [k \in ByteIx |-> IF k <= 4 THEN (n \div (256 ^ (k - 1))) % 256 ELSE 0]

\* the number held by the n bits of v from bit lo upwards (n <= 30)
RECURSIVE Field(_, _, _)
Field(v, lo, n) == IF n = 0 THEN 0 ELSE Bit(v, lo) + 2 * Field(v, lo + 1, n - 1)

\* x & y on 4-bit numbers, tabulated
AndNibble ==
    [x \in 0..15 |-> [y \in 0..15 |->
        ((x % 2) * (y % 2))
        + 2 * (((x \div 2) % 2) * ((y \div 2) % 2))
        + 4 * (((x \div 4) % 2) * ((y \div 4) % 2))
        + 8 * ((x \div 8) * (y \div 8))]]

\* x & y on bytes
AndByte(x, y) == AndNibble[x % 16][y % 16] + 16 * AndNibble[x \div 16][y \div 16]

bitand(a, b) == [k \in ByteIx |-> AndByte(a[k], b[k])]

\* x | y on bytes
OrByte(x, y) == x + y - AndByte(x, y)

\* x ^ y on bytes
XorByte(x, y) == x + y - 2 * AndByte(x, y)

bitor(a, b) == [k \in ByteIx |-> OrByte(a[k], b[k])]

bitxor(a, b) == [k \in ByteIx |-> XorByte(a[k], b[k])]

not(a) == [k \in ByteIx |-> 255 - a[k]]

\* u64::wrapping_add: byte by byte with carry, the carry out of byte 8 dropped
wrapping_add(a, b) ==
    LET s1 == a[1] + b[1]
        s2 == a[2] + b[2] + (s1 \div 256)
        s3 == a[3] + b[3] + (s2 \div 256)
        s4 == a[4] + b[4] + (s3 \div 256)
        s5 == a[5] + b[5] + (s4 \div 256)
        s6 == a[6] + b[6] + (s5 \div 256)
        s7 == a[7] + b[7] + (s6 \div 256)
        s8 == a[8] + b[8] + (s7 \div 256)
    IN  <<s1 % 256, s2 % 256, s3 % 256, s4 % 256,
          s5 % 256, s6 % 256, s7 % 256, s8 % 256>>

\* u64::wrapping_sub: a + !b + 1
wrapping_sub(a, b) == wrapping_add(wrapping_add(a, not(b)), FromNat(1))

\* byte j of a, with `fill` beyond either end
ByteOr(a, j, fill) == IF j \in ByteIx THEN a[j] ELSE fill

\* u64::wrapping_shl: the shift amount is taken mod 64, zeros enter at bit 0
wrapping_shl(a, k) ==
    LET q == (k % XLEN) \div 8
        r == k % 8
    IN  [j \in ByteIx |-> ((ByteOr(a, j - q, 0) * (2 ^ r)) % 256)
                          + (ByteOr(a, j - q - 1, 0) \div (2 ^ (8 - r)))]

\* a shifted right by k mod 64 bits, every byte of `fill` entering at bit 63
ShiftRight(a, k, fill) ==
    LET q == (k % XLEN) \div 8
        r == k % 8
    IN  [j \in ByteIx |-> (ByteOr(a, j + q, fill) \div (2 ^ r))
                          + ((ByteOr(a, j + q + 1, fill) * (2 ^ (8 - r))) % 256)]

\* u64::wrapping_shr: zeros enter at bit 63
wrapping_shr(a, k) == ShiftRight(a, k, 0)

\* the shift of wrapping_shr_i64 without the sign: zeros enter at bit 63
wrapping_shr_i64_logical(a, k) == ShiftRight(a, k, 0)

\* i64::wrapping_shr then `as u64`: copies of the sign bit enter at bit 63
wrapping_shr_i64(a, k) == ShiftRight(a, k, IF a[8] >= 128 THEN 255 ELSE 0)

\* `v as iW as i64 as u64` (W = 8, 16, 32, 64): truncate to W bits, sign-extend
sext(v, w) ==
    [k \in ByteIx |-> IF k <= w \div 8 THEN v[k]
                      ELSE IF v[w \div 8] >= 128 THEN 255 ELSE 0]

\* `v as uW as u64` (W = 8, 16, 32): truncate to W bits, zero-extend
zext(v, w) == [k \in ByteIx |-> IF k <= w \div 8 THEN v[k] ELSE 0]

\* a < b on u64: decided at the most significant byte where they differ
ltu(a, b) ==
    \E k \in ByteIx : /\ a[k] < b[k]
                      /\ \A j \in ByteIx : j > k => a[j] = b[j]

\* (a as i64) < (b as i64)
lts(a, b) ==
    IF (a[8] >= 128) # (b[8] >= 128) THEN a[8] >= 128 ELSE ltu(a, b)

----------------------------------------------------------------------------
(* src/src/bus.rs, src/src/dram.rs: constants and results                  *)

\* 0x8000_0000
DRAM_BASE == Mask(31, 31)

\* 1024 * 1024 * 128
DRAM_SIZE == 134217728

Ok(v) == [tag |-> "Ok", val |-> v]

Err == [tag |-> "Err", val |-> Zero]

\* an index-out-of-bounds panic of Vec<u8> indexing
Panic == [tag |-> "Panic", val |-> Zero]

----------------------------------------------------------------------------
(* src/src/dram.rs                                                         *)

Byte == 0..255

\* self.dram[i] for i < DRAM_SIZE
GetByte(d, i) == IF i \in DOMAIN d THEN d[i] ELSE 0

\* self.dram[i] = b for i < DRAM_SIZE
SetByte(d, i, b) ==
    IF b = 0
    THEN [j \in DOMAIN d \ {i} |-> d[j]]
    ELSE [j \in DOMAIN d \cup {i} |-> IF j = i THEN b ELSE d[j]]

\* Dram::new: DRAM_SIZE zero bytes with the image spliced over the first
\* Len(code) of them
Dram_new(code) ==
    [j \in {i \in 0..(Len(code) - 1) : code[i + 1] # 0} |-> code[j + 1]]

\* `(addr - DRAM_BASE) as usize`, as a number when it is below DRAM_SIZE and
\* as DRAM_SIZE (the first index out of bounds) otherwise.  With
\* addr < DRAM_BASE the subtraction wraps to at least 2^64 - 2^31 (or panics
\* on overflow in a build with overflow checks): out of bounds in both builds.
Index(addr) ==
    LET ix == wrapping_sub(addr, DRAM_BASE)
    IN  IF ix[4] < 8 /\ \A k \in 5..8 : ix[k] = 0
        THEN ix[1] + 256 * ix[2] + 65536 * ix[3] + 16777216 * ix[4]
        ELSE DRAM_SIZE

\* `self.dram[index + k] as u64`
ByteAt(d, index, k) == FromNat(GetByte(d, index + k))

\* the bounds check of the n indexings dram[index] .. dram[index + n - 1]
InBounds(addr, n) == Index(addr) + n - 1 < DRAM_SIZE

load64(d, addr) ==
    LET index == Index(addr)
    IN  bitor(ByteAt(d, index, 0),
        bitor(wrapping_shl(ByteAt(d, index, 1), 8),
        bitor(wrapping_shl(ByteAt(d, index, 2), 16),
        bitor(wrapping_shl(ByteAt(d, index, 3), 24),
        bitor(wrapping_shl(ByteAt(d, index, 4), 32),
        bitor(wrapping_shl(ByteAt(d, index, 5), 38),
        bitor(wrapping_shl(ByteAt(d, index, 6), 46),
              wrapping_shl(ByteAt(d, index, 7), 54))))))))

load32(d, addr) ==
    LET index == Index(addr)
    IN  bitor(ByteAt(d, index, 0),
        bitor(wrapping_shl(ByteAt(d, index, 1), 8),
        bitor(wrapping_shl(ByteAt(d, index, 2), 16),
              wrapping_shl(ByteAt(d, index, 3), 24))))

load16(d, addr) ==
    LET index == Index(addr)
    IN  bitor(ByteAt(d, index, 0), wrapping_shl(ByteAt(d, index, 1), 8))

load8(d, addr) == ByteAt(d, Index(addr), 0)

\* `((value >> s) & 0xff) as u8`
ByteOf(value, s) == Field(bitand(wrapping_shr(value, s), Mask(0, 7)), 0, 8)

\* the assignments dram[index + k] = bs[k + 1] in order; an assignment whose
\* index is out of bounds panics and the ones after it do not happen
RECURSIVE StoreBytes(_, _, _, _)
StoreBytes(d, index, bs, k) ==
    IF k = Len(bs) \/ index + k >= DRAM_SIZE
    THEN d
    ELSE StoreBytes(SetByte(d, index + k, bs[k + 1]), index, bs, k + 1)

store64(d, addr, value) ==
    StoreBytes(d, Index(addr),
               <<ByteOf(value, 0), ByteOf(value, 8), ByteOf(value, 16),
                 ByteOf(value, 24), ByteOf(value, 32), ByteOf(value, 38),
                 ByteOf(value, 46), ByteOf(value, 54)>>, 0)

store32(d, addr, value) ==
    StoreBytes(d, Index(addr),
               <<ByteOf(value, 0), ByteOf(value, 8), ByteOf(value, 16),
                 ByteOf(value, 24)>>, 0)

\* store16 writing the two bytes in the opposite order
store16_swapped(d, addr, value) ==
    StoreBytes(d, Index(addr), <<ByteOf(value, 8), ByteOf(value, 0)>>, 0)

store16(d, addr, value) ==
    StoreBytes(d, Index(addr), <<ByteOf(value, 0), ByteOf(value, 8)>>, 0)

store8(d, addr, value) == StoreBytes(d, Index(addr), <<ByteOf(value, 0)>>, 0)

\* the widths Dram::load and Dram::store accept
Widths == {8, 16, 32, 64}

\* Dram::load: the result
Dram_load(d, addr, size) ==
    IF size \notin Widths THEN Err
    ELSE IF ~InBounds(addr, size \div 8) THEN Panic
    ELSE CASE size = 8 -> Ok(load8(d, addr))
           [] size = 16 -> Ok(load16(d, addr))
           [] size = 32 -> Ok(load32(d, addr))
           [] size = 64 -> Ok(load64(d, addr))

\* Dram::store: the result
Dram_store_ret(addr, size) ==
    IF size \notin Widths THEN Err
    ELSE IF ~InBounds(addr, size \div 8) THEN Panic
    ELSE Ok(Zero)

\* Dram::store: the bytes afterwards
Dram_store(d, addr, size, value) ==
    CASE size = 8 -> store8(d, addr, value)
      [] size = 16 -> store16(d, addr, value)
      [] size = 32 -> store32(d, addr, value)
      [] size = 64 -> store64(d, addr, value)
      [] OTHER -> d

----------------------------------------------------------------------------
(* src/src/bus.rs                                                          *)

\* Bus::load with the comparison `DRAM_BASE < addr`
Bus_load_strict(d, addr, size) ==
    IF ltu(DRAM_BASE, addr) THEN Dram_load(d, addr, size) ELSE Err

\* Bus::load
Bus_load(d, addr, size) ==
    IF ~ltu(addr, DRAM_BASE) THEN Dram_load(d, addr, size) ELSE Err

\* Bus::store: the result
Bus_store_ret(addr, size) ==
    IF ~ltu(addr, DRAM_BASE) THEN Dram_store_ret(addr, size) ELSE Err

\* Bus::store: the bytes afterwards
Bus_store(d, addr, size, value) ==
    IF ~ltu(addr, DRAM_BASE) THEN Dram_store(d, addr, size, value) ELSE d

\* Bus::store: the reservations afterwards.  A reservation is a pair
\* <<original value, has changed>>
Bus_store_reservations(r, addr, value) ==
    IF ~ltu(addr, DRAM_BASE) /\ addr \in DOMAIN r /\ r[addr][1] # value
    THEN [r EXCEPT ![addr] = <<r[addr][1], TRUE>>]
    ELSE r

----------------------------------------------------------------------------
(* src/src/cpu.rs: CSR file                                                *)

MIE == 772

SIE == 260

MIDELEG == 771

RDCYCLE == 3072

RDTIME == 3073

INSTRET == 3074

\* self.csrs[a]
GetCsr(c, a) == IF a \in DOMAIN c THEN c[a] ELSE Zero

\* self.csrs[a] = v
SetCsr(c, a, v) ==
    IF v = Zero
    THEN [j \in DOMAIN c \ {a} |-> c[j]]
    ELSE [j \in DOMAIN c \cup {a} |-> IF j = a THEN v ELSE c[j]]

\* load_csr without the arm for SIE
load_csr_raw(c, addr) == GetCsr(c, addr)

load_csr(c, addr) ==
    IF addr = SIE
    THEN bitand(GetCsr(c, MIE), GetCsr(c, MIDELEG))
    ELSE GetCsr(c, addr)

\* store_csr without the arm for SIE
store_csr_raw(c, addr, value) == SetCsr(c, addr, value)

store_csr(c, addr, value) ==
    IF addr = SIE
    THEN SetCsr(c, MIE, bitor(bitand(GetCsr(c, MIE), not(GetCsr(c, MIDELEG))),
                              bitand(value, GetCsr(c, MIDELEG))))
    ELSE SetCsr(c, addr, value)

----------------------------------------------------------------------------
(* src/src/cpu.rs: Cpu::execute.  The machine m is the record of the       *)
(* fields execute can change, [regs, pc, dram, reservations, csrs], with   *)
(* ret, the way execute ends: "Ok", "Err" or "Panic".                      *)

\* self.regs[rd] = v
SetReg(m, rd, v) == [m EXCEPT !.regs[rd] = v]

\* a failure that also takes back the increment of pc
Fail_rewinds(m) ==
    [m EXCEPT !.ret = "Err", !.pc = wrapping_sub(m.pc, FromNat(4))]

\* `Err(())?`
Fail(m) == [m EXCEPT !.ret = "Err"]

\* `unimplemented!(..)`
Unimplemented(m) == [m EXCEPT !.ret = "Panic"]

\* self.regs[rd] = self.bus.load(addr, size)? [as iN as i64 as u64]
\* (r is bound to the result of the one call of Bus::load)
LoadReg(m, rd, addr, size, signed) ==
    CHOOSE after \in
        { IF r.tag = "Ok"
          THEN SetReg(m, rd, IF signed THEN sext(r.val, size) ELSE r.val)
          ELSE [m EXCEPT !.ret = r.tag] : r \in {Bus_load(m.dram, addr, size)} } :
        TRUE

\* self.bus.store(addr, size, self.regs[rs2])?
StoreReg(m, addr, size, value) ==
    [m EXCEPT !.dram = Bus_store(m.dram, addr, size, value),
              !.reservations = Bus_store_reservations(m.reservations, addr, value),
              !.ret = Bus_store_ret(addr, size).tag]

\* opcode 0x03
exec_load(m, i, rd, rs1, funct3) ==
    LET imm == wrapping_shr_i64(sext(i, 32), 20)
        addr == wrapping_add(m.regs[rs1], imm)
        \* lb, lh, lw, ld sign-extend; lbu, lhu, lwu do not
        size == CASE funct3 \in {0, 4} -> 8
                  [] funct3 \in {1, 5} -> 16
                  [] funct3 \in {2, 6} -> 32
                  [] OTHER -> 64
    IN  IF funct3 = 7 THEN Fail(m) ELSE LoadReg(m, rd, addr, size, funct3 <= 3)

\* opcode 0x23
exec_store(m, i, rs1, rs2, funct3) ==
    LET imm == bitor(wrapping_shr_i64(sext(bitand(i, Mask(25, 31)), 32), 20),
                     bitand(wrapping_shr(i, 7), Mask(0, 4)))
        addr == wrapping_add(m.regs[rs1], imm)
        \* sb, sh, sw, sd
        size == CASE funct3 = 0 -> 8
                  [] funct3 = 1 -> 16
                  [] funct3 = 2 -> 32
                  [] OTHER -> 64
    IN  IF funct3 > 3 THEN Fail(m) ELSE StoreReg(m, addr, size, m.regs[rs2])

\* `b as u64` for a bool b
FromBool(b) == IF b THEN FromNat(1) ELSE Zero

\* opcode 0x13
exec_op_imm(m, i, rd, rs1, funct3, funct7) ==
    LET imm == wrapping_shr_i64(sext(bitand(i, Mask(20, 31)), 32), 20)
        shamt == Field(bitand(imm, Mask(0, 5)), 0, 6)
        x == m.regs[rs1]
    IN  CASE funct3 = 0 -> SetReg(m, rd, wrapping_add(x, imm))
          [] funct3 = 4 -> SetReg(m, rd, bitxor(x, imm))
          [] funct3 = 6 -> SetReg(m, rd, bitor(x, imm))
          [] funct3 = 7 -> SetReg(m, rd, bitand(x, imm))
          [] funct3 = 1 /\ funct7 = 0 -> SetReg(m, rd, wrapping_shr(x, shamt))
          [] funct3 = 5 /\ funct7 = 0 -> SetReg(m, rd, wrapping_shl(x, shamt))
          [] funct3 = 5 /\ funct7 = 32 -> SetReg(m, rd, wrapping_shr_i64(x, shamt))
          [] funct3 = 2 -> SetReg(m, rd, FromBool(lts(x, imm)))
          [] funct3 = 3 -> SetReg(m, rd, FromBool(ltu(x, imm)))
          [] OTHER -> Fail(m)

\* opcode 0x33
exec_op(m, rd, rs1, rs2, funct3, funct7) ==
    LET shamt == Field(bitand(m.regs[rs2], Mask(0, 5)), 0, 6)
        x == m.regs[rs1]
        y == m.regs[rs2]
    IN  CASE funct3 = 0 /\ funct7 = 0 -> SetReg(m, rd, wrapping_add(x, y))
          [] funct3 = 0 /\ funct7 = 32 -> SetReg(m, rd, wrapping_sub(x, y))
          [] funct3 = 4 /\ funct7 = 0 -> SetReg(m, rd, bitxor(x, y))
          [] funct3 = 6 /\ funct7 = 0 -> SetReg(m, rd, bitand(x, y))
          [] funct3 = 1 /\ funct7 = 0 -> SetReg(m, rd, wrapping_shl(x, shamt))
          [] funct3 = 5 /\ funct7 = 0 -> SetReg(m, rd, wrapping_shr(x, shamt))
          [] funct3 = 5 /\ funct7 = 32 -> SetReg(m, rd, wrapping_shr_i64(x, shamt))
          [] funct3 = 2 /\ funct7 = 0 -> SetReg(m, rd, FromBool(lts(x, y)))
          [] funct3 = 3 /\ funct7 = 0 -> SetReg(m, rd, FromBool(ltu(x, y)))
          [] OTHER -> Fail(m)

\* u32::wrapping_shl / u32::wrapping_shr / i32 >> on the low 32 bits of x,
\* each followed by `as i32 .. as u64` (sign extension from bit 31)
shl32(x, k) == sext(wrapping_shl(zext(x, 32), k % 32), 32)

shr32(x, k) == sext(wrapping_shr(zext(x, 32), k % 32), 32)

sar32(x, k) == sext(wrapping_shr_i64(sext(x, 32), k % 32), 32)

\* opcode 0x3b
exec_op_w(m, rd, rs1, rs2, funct3, funct7) ==
    LET shamt == Field(bitand(m.regs[rs2], Mask(0, 4)), 0, 5)
        x == m.regs[rs1]
        y == m.regs[rs2]
    IN  CASE funct3 = 0 /\ funct7 = 0 -> SetReg(m, rd, sext(wrapping_add(x, y), 32))
          [] funct3 = 0 /\ funct7 = 32 -> SetReg(m, rd, sext(wrapping_sub(x, y), 32))
          [] funct3 = 1 /\ funct7 = 0 -> SetReg(m, rd, shl32(x, shamt))
          [] funct3 = 5 /\ funct7 = 0 -> SetReg(m, rd, shr32(x, shamt))
          [] funct3 = 5 /\ funct7 = 32 -> SetReg(m, rd, sar32(x, shamt))
          [] OTHER -> Unimplemented(m)

\* opcode 0x1b
exec_op_imm_w(m, i, rd, rs1, funct3, funct7) ==
    LET imm == wrapping_shr_i64(sext(i, 32), 20)
        shamt == Field(bitand(imm, Mask(0, 4)), 0, 5)
        x == m.regs[rs1]
    IN  CASE funct3 = 0 -> SetReg(m, rd, sext(wrapping_add(x, imm), 32))
          [] funct3 = 1 -> SetReg(m, rd, sext(wrapping_shl(x, shamt), 32))
          [] funct3 = 5 /\ funct7 = 0 -> SetReg(m, rd, shr32(x, shamt))
          [] funct3 = 5 /\ funct7 = 32 -> SetReg(m, rd, sar32(x, shamt))
          [] OTHER -> Unimplemented(m)

\* self.pc = self.pc.wrapping_add(imm).wrapping_sub(4), when cond holds
Branch_no_rewind(m, cond, imm) ==
    IF cond
    THEN [m EXCEPT !.pc = wrapping_add(m.pc, imm)]
    ELSE m

Branch(m, cond, imm) ==
    IF cond
    THEN [m EXCEPT !.pc = wrapping_sub(wrapping_add(m.pc, imm), FromNat(4))]
    ELSE m

\* opcode 0x63
exec_branch(m, i, rs1, rs2, funct3) ==
    LET imm == bitor(wrapping_shr_i64(sext(bitand(i, Mask(31, 31)), 32), 19),
               bitor(wrapping_shl(bitand(i, Mask(7, 7)), 4),
               bitor(bitand(wrapping_shr(i, 20), Mask(5, 10)),
                     bitand(wrapping_shr(i, 7), Mask(1, 4)))))
        x == m.regs[rs1]
        y == m.regs[rs2]
    IN  CASE funct3 = 0 -> Branch(m, x = y, imm)
          [] funct3 = 1 -> Branch(m, x # y, imm)
          [] funct3 = 4 -> Branch(m, lts(x, y), imm)
          [] funct3 = 5 -> Branch(m, ~lts(x, y), imm)
          [] funct3 = 6 -> Branch(m, ltu(x, y), imm)
          [] funct3 = 7 -> Branch(m, ~ltu(x, y), imm)
          [] OTHER -> Unimplemented(m)

\* opcode 0x37
exec_lui(m, i, rd) == SetReg(m, rd, sext(bitand(i, Mask(12, 31)), 32))

\* opcode 0x17: imm32 is computed and traced; nothing is assigned
exec_auipc(m, i, rd) == m

exec_jal_no_imm11(m, i, rd) ==
    LET imm == bitor(wrapping_shr_i64(sext(bitand(i, Mask(31, 31)), 32), 11),
               bitor(bitand(i, Mask(12, 19)),
                     bitand(wrapping_shr(i, 20), Mask(1, 10))))
        m1 == SetReg(m, rd, m.pc)
    IN  [m1 EXCEPT !.pc = wrapping_sub(wrapping_add(m.pc, imm), FromNat(4))]

\* opcode 0x6f
exec_jal(m, i, rd) ==
    LET imm == bitor(wrapping_shr_i64(sext(bitand(i, Mask(31, 31)), 32), 11),
               bitor(bitand(i, Mask(12, 19)),
               bitor(bitand(wrapping_shr(i, 9), Mask(11, 11)),
                     bitand(wrapping_shr(i, 20), Mask(1, 10)))))
        m1 == SetReg(m, rd, m.pc)
    IN  [m1 EXCEPT !.pc = wrapping_sub(wrapping_add(m.pc, imm), FromNat(4))]

\* opcode 0x67: the target is computed from the registers as they are after
\* the link has been written
exec_jalr(m, i, rd, rs1) ==
    LET imm == wrapping_shr_i64(sext(bitand(i, Mask(20, 31)), 32), 20)
        m1 == SetReg(m, rd, m.pc)
        addr == bitand(wrapping_add(m1.regs[rs1], imm), Mask(1, XLEN - 1))
    IN  [m1 EXCEPT !.pc = addr]

\* CSRRW / CSRRWI: the CSR is read only when rd != 0
CsrWrite(m, csr_addr, rd, src) ==
    IF rd # 0
    THEN LET csr == load_csr(m.csrs, csr_addr)
             m1 == [m EXCEPT !.csrs = store_csr(m.csrs, csr_addr, src)]
         IN  SetReg(m1, rd, csr)
    ELSE [m EXCEPT !.csrs = store_csr(m.csrs, csr_addr, src)]

\* opcode 0x73
exec_csr_always_writes(m, i, rd, rs1, funct3) ==
    LET csr_addr == Field(wrapping_shr(bitand(i, Mask(20, 31)), 20), 0, 12)
        imm == FromNat(rs1)
        csr == load_csr(m.csrs, csr_addr)
        m1 == SetReg(m, rd, csr)
    IN  CASE funct3 = 1 -> CsrWrite(m, csr_addr, rd, m.regs[rs1])
          [] funct3 = 2 ->
                [m1 EXCEPT !.csrs =
                   store_csr(m.csrs, csr_addr, bitor(csr, m1.regs[rs1]))]
          [] funct3 = 3 ->
                [m1 EXCEPT !.csrs =
                   store_csr(m.csrs, csr_addr, bitand(csr, m1.regs[rs1]))]
          [] funct3 = 5 -> CsrWrite(m, csr_addr, rd, imm)
          [] funct3 = 6 ->
                [m1 EXCEPT !.csrs = store_csr(m.csrs, csr_addr, bitor(csr, imm))]
          [] funct3 = 7 ->
                [m1 EXCEPT !.csrs = store_csr(m.csrs, csr_addr, bitand(csr, imm))]
          [] OTHER -> Fail(m)

exec_csr(m, i, rd, rs1, funct3) ==
    LET csr_addr == Field(wrapping_shr(bitand(i, Mask(20, 31)), 20), 0, 12)
        imm == FromNat(rs1)
        csr == load_csr(m.csrs, csr_addr)
        m1 == SetReg(m, rd, csr)
    IN  CASE funct3 = 1 -> CsrWrite(m, csr_addr, rd, m.regs[rs1])
          [] funct3 = 2 ->
                IF rs1 # 0
                THEN [m1 EXCEPT !.csrs =
                        store_csr(m.csrs, csr_addr, bitor(csr, m1.regs[rs1]))]
                ELSE m1
          [] funct3 = 3 ->
                IF rs1 # 0
                THEN [m1 EXCEPT !.csrs =
                        store_csr(m.csrs, csr_addr, bitand(csr, m1.regs[rs1]))]
                ELSE m1
          [] funct3 = 5 -> CsrWrite(m, csr_addr, rd, imm)
          [] funct3 = 6 ->
                IF imm # Zero
                THEN [m1 EXCEPT !.csrs = store_csr(m.csrs, csr_addr, bitor(csr, imm))]
                ELSE m1
          [] funct3 = 7 ->
                IF imm # Zero
                THEN [m1 EXCEPT !.csrs = store_csr(m.csrs, csr_addr, bitand(csr, imm))]
                ELSE m1
          [] OTHER -> Fail(m)

execute(m, i) ==
    LET opcode == Field(bitand(i, Mask(0, 6)), 0, 7)
        rd == Field(bitand(wrapping_shr(i, 7), Mask(0, 4)), 0, 5)
        rs1 == Field(bitand(wrapping_shr(i, 15), Mask(0, 4)), 0, 5)
        rs2 == Field(bitand(wrapping_shr(i, 20), Mask(0, 4)), 0, 5)
        funct3 == Field(bitand(wrapping_shr(i, 12), Mask(0, 2)), 0, 3)
        funct7 == Field(bitand(wrapping_shr(i, 25), Mask(0, 6)), 0, 7)
    IN  CASE opcode = 3 -> exec_load(m, i, rd, rs1, funct3)
          [] opcode = 35 -> exec_store(m, i, rs1, rs2, funct3)
          [] opcode = 19 -> exec_op_imm(m, i, rd, rs1, funct3, funct7)
          [] opcode = 51 -> exec_op(m, rd, rs1, rs2, funct3, funct7)
          [] opcode = 59 -> exec_op_w(m, rd, rs1, rs2, funct3, funct7)
          [] opcode = 27 -> exec_op_imm_w(m, i, rd, rs1, funct3, funct7)
          [] opcode = 99 -> exec_branch(m, i, rs1, rs2, funct3)
          [] opcode = 55 -> exec_lui(m, i, rd)
          [] opcode = 23 -> exec_auipc(m, i, rd)
          [] opcode = 111 -> exec_jal(m, i, rd)
          [] opcode = 103 -> exec_jalr(m, i, rd, rs1)
          [] opcode = 115 -> exec_csr(m, i, rd, rs1, funct3)
          [] opcode = 0 -> Fail(m)
          [] OTHER -> Unimplemented(m)

----------------------------------------------------------------------------
(* src/src/cpu.rs: Cpu::new, Cpu::fetch, Cpu::run                          *)

\* the largest value Instant::elapsed().as_secs() takes in the model
MaxSecs == 1

\* Cpu::new: the register file
Cpu_new_regs ==
    [r \in 0..31 |-> IF r = 2
                     THEN wrapping_add(DRAM_BASE, FromNat(DRAM_SIZE))
                     ELSE Zero]

\* Cpu::new(code), with no bus call made and run not yet entered
Cpu_new(code) ==
    /\ regs = Cpu_new_regs
    /\ pc = DRAM_BASE
    /\ dram = Dram_new(code)
    /\ reservations = <<>>
    /\ csrs = <<>>
    /\ elapsed = 0
    /\ inst = Zero
    /\ status = "new"
    /\ calls = <<>>

fetch(d, p) == Bus_load(d, p, 32)

\* `self.csrs[a] += 1`: the sum wraps, or panics on overflow in a build with
\* overflow checks (checked = TRUE)
Increment(c, a) == SetCsr(c, a, wrapping_add(GetCsr(c, a), FromNat(1)))

Overflows(c, a) == GetCsr(c, a) = Mask(0, XLEN - 1)

\* the counter updates of one iteration
Counters(c, secs) ==
    SetCsr(Increment(Increment(c, RDCYCLE), INSTRET), RDTIME, FromNat(secs))

\* the loop without the exit on pc == 0
AfterExecute_no_halt(m) ==
    CASE m.ret = "Panic" -> "panicked"
      [] m.ret = "Err" -> "execute_failed"
      [] OTHER -> "running"

\* how the loop goes on after execute returned m
AfterExecute(m) ==
    CASE m.ret = "Panic" -> "panicked"
      [] m.ret = "Err" -> "execute_failed"
      [] m.pc = Zero -> "halted"
      [] OTHER -> "running"

\* the loop without `self.regs[0] = 0`
ZeroX0_skipped(m) == m.regs

\* `self.regs[0] = 0`, reached when execute returned Ok
ZeroX0(m) == IF m.ret = "Ok" THEN [m.regs EXCEPT ![0] = Zero] ELSE m.regs

\* One iteration of the loop of Cpu::run, from the fetch to the loop's next
\* test or to run's return.  status is where run is: "new" (not entered),
\* "running" (at the head of the loop after a retired instruction), or how it
\* ended: "fetch_failed", "execute_failed", "halted" (all three return Ok(()))
\* and "panicked".
run ==
    /\ status \in {"new", "running"}
    /\ calls = <<>>
    /\ \E f \in {fetch(dram, pc)} :
           IF f.tag # "Ok"
           THEN /\ status' = (IF f.tag = "Err" THEN "fetch_failed" ELSE "panicked")
                /\ UNCHANGED <<regs, pc, dram, reservations, csrs, elapsed, inst>>
           ELSE \E secs \in elapsed..MaxSecs :
                \E checked \in {b \in BOOLEAN : b => (Overflows(csrs, RDCYCLE) \/
                                                       Overflows(csrs, INSTRET))} :
                   IF checked
                   THEN /\ status' = "panicked"
                        /\ inst' = f.val
                        /\ pc' = wrapping_add(pc, FromNat(4))
                        /\ csrs' = (IF Overflows(csrs, RDCYCLE)
                                    THEN csrs
                                    ELSE Increment(csrs, RDCYCLE))
                        /\ UNCHANGED <<regs, dram, reservations, elapsed>>
                   ELSE \E m \in {execute([regs |-> regs,
                                             pc |-> wrapping_add(pc, FromNat(4)),
                                             dram |-> dram,
                                             reservations |-> reservations,
                                             csrs |-> Counters(csrs, secs),
                                             ret |-> "Ok"], f.val)} :
                            /\ inst' = f.val
                            /\ elapsed' = secs
                            /\ regs' = ZeroX0(m)
                            /\ pc' = m.pc
                            /\ dram' = m.dram
                            /\ reservations' = m.reservations
                            /\ csrs' = m.csrs
                            /\ status' = AfterExecute(m)
    /\ UNCHANGED calls

----------------------------------------------------------------------------
(* Images.  An instruction word is written as its four bytes, least        *)
(* significant first, from the fields Cpu::execute decodes.                *)

\* the word with opcode = inst[6:0], rd = inst[11:7], funct3 = inst[14:12],
\* rs1 = inst[19:15] and hi12 = inst[31:20]
Enc(opcode, rd, funct3, rs1, hi12) ==
    LET low20 == opcode + 128 * rd + 4096 * funct3 + 32768 * rs1
    IN  <<low20 % 256, (low20 \div 256) % 256,
          (low20 \div 65536) + 16 * (hi12 % 16), hi12 \div 16>>

\* the 12-bit two's complement encoding of imm in -2048..2047
Imm12(imm) == (imm + 4096) % 4096

\* R-type: rs2 = inst[24:20], funct7 = inst[31:25]
EncR(opcode, rd, funct3, rs1, rs2, funct7) ==
    Enc(opcode, rd, funct3, rs1, rs2 + 32 * funct7)

\* U-type: imm20 = inst[31:12]
EncU(opcode, rd, imm20) ==
    Enc(opcode, rd, imm20 % 8, (imm20 \div 8) % 32, imm20 \div 256)

ADDI(rd, rs1, imm) == Enc(19, rd, 0, rs1, Imm12(imm))

SLLI(rd, rs1, shamt) == Enc(19, rd, 1, rs1, shamt)

SRLI(rd, rs1, shamt) == Enc(19, rd, 5, rs1, shamt)

SRAI(rd, rs1, shamt) == Enc(19, rd, 5, rs1, 1024 + shamt)

LUI(rd, imm20) == EncU(55, rd, imm20)

AUIPC(rd, imm20) == EncU(23, rd, imm20)

JALR(rd, rs1, imm) == Enc(103, rd, 0, rs1, Imm12(imm))

CSRRW(rd, csr, rs1) == Enc(115, rd, 1, rs1, csr)

CSRRS(rd, csr, rs1) == Enc(115, rd, 2, rs1, csr)

CSRRC(rd, csr, rs1) == Enc(115, rd, 3, rs1, csr)

CSRRWI(rd, csr, uimm) == Enc(115, rd, 5, uimm, csr)

CSRRSI(rd, csr, uimm) == Enc(115, rd, 6, uimm, csr)

CSRRCI(rd, csr, uimm) == Enc(115, rd, 7, uimm, csr)

\* S-type: imm[4:0] = inst[11:7], imm[11:5] = inst[31:25]
EncS(opcode, funct3, rs1, rs2, imm) ==
    Enc(opcode, Imm12(imm) % 32, funct3, rs1, rs2 + 32 * (Imm12(imm) \div 32))

\* B-type: imm[12|10:5] = inst[31:25], imm[4:1|11] = inst[11:7]
EncB(funct3, rs1, rs2, imm) ==
    LET u == (imm + 8192) % 8192
    IN  Enc(99, 2 * ((u \div 2) % 16) + ((u \div 2048) % 2), funct3, rs1,
            rs2 + 32 * (64 * (u \div 4096) + ((u \div 32) % 64)))

\* J-type: imm[20|10:1|11|19:12] = inst[31:12]
JAL(rd, imm) ==
    LET u == (imm + 2097152) % 2097152
    IN  EncU(111, rd, 524288 * (u \div 1048576) + 512 * ((u \div 2) % 1024)
                      + 256 * ((u \div 2048) % 2) + ((u \div 4096) % 256))

LW(rd, rs1, imm) == Enc(3, rd, 2, rs1, Imm12(imm))

SD(rs1, rs2, imm) == EncS(35, 3, rs1, rs2, imm)

BEQ(rs1, rs2, imm) == EncB(0, rs1, rs2, imm)

ADD(rd, rs1, rs2) == EncR(51, rd, 0, rs1, rs2, 0)

ADDW(rd, rs1, rs2) == EncR(59, rd, 0, rs1, rs2, 0)

ADDIW(rd, rs1, imm) == Enc(27, rd, 0, rs1, Imm12(imm))

\* the image holding the instruction words of prog one after the other
RECURSIVE Image(_)
Image(prog) == IF prog = <<>> THEN <<>> ELSE Head(prog) \o Image(Tail(prog))

----------------------------------------------------------------------------
(* The memory interface driven directly: on a freshly constructed machine  *)
(* a caller makes one store and then one load, or one load, on the Dram or *)
(* on the Bus.  calls is the sequence of the calls made, each with its     *)
(* arguments and its result.                                               *)

\* DRAM_BASE + off
At(off) == wrapping_add(DRAM_BASE, FromNat(off))

\* images: none; nine non-zero bytes; bytes 5..8 alone non-zero
MemImages ==
    { <<>>,
      <<136, 119, 102, 85, 68, 51, 34, 17, 255>>,
      <<0, 0, 0, 0, 0, 1, 2, 128, 64>> }

\* the first byte of DRAM, an unaligned address, an address whose 64-bit
\* access runs past the end of DRAM, and the last address below DRAM
MemAddrs == {At(0), At(1), At(DRAM_SIZE - 4), wrapping_sub(DRAM_BASE, FromNat(1))}

\* the four legal widths and an illegal one
MemSizes == Widths \cup {24}

\* 0x1122334455667788, 0xffffffffffffffff, 0x4000000000000000
MemValues ==
    { <<136, 119, 102, 85, 68, 51, 34, 17>>,
      Mask(0, XLEN - 1),
      Mask(62, 62) }

Call(op, addr, size, value, ret) ==
    [op |-> op, addr |-> addr, size |-> size, value |-> value, ret |-> ret]

Stored == calls # <<>> /\ calls[Len(calls)].op \in {"Dram.store", "Bus.store"}

CanStore == status = "new" /\ calls = <<>>

CanLoad ==
    /\ status = "new"
    /\ calls = <<>> \/ (Len(calls) = 1 /\ Stored /\ calls[1].ret.tag # "Panic")

DramLoadCall ==
    /\ CanLoad
    /\ \E a \in MemAddrs, w \in MemSizes :
          calls' = Append(calls, Call("Dram.load", a, w, Zero, Dram_load(dram, a, w)))
    /\ UNCHANGED <<dram, reservations>>
    /\ UNCHANGED cpuVars

DramStoreCall ==
    /\ CanStore
    /\ \E a \in MemAddrs, w \in MemSizes, v \in MemValues :
          /\ calls' = Append(calls, Call("Dram.store", a, w, v, Dram_store_ret(a, w)))
          /\ dram' = Dram_store(dram, a, w, v)
    /\ UNCHANGED reservations
    /\ UNCHANGED cpuVars

BusLoadCall ==
    /\ CanLoad
    /\ \E a \in MemAddrs, w \in MemSizes :
          calls' = Append(calls, Call("Bus.load", a, w, Zero, Bus_load(dram, a, w)))
    /\ UNCHANGED <<dram, reservations>>
    /\ UNCHANGED cpuVars

BusStoreCall ==
    /\ CanStore
    /\ \E a \in MemAddrs, w \in MemSizes, v \in MemValues :
          /\ calls' = Append(calls, Call("Bus.store", a, w, v, Bus_store_ret(a, w)))
          /\ dram' = Bus_store(dram, a, w, v)
          /\ reservations' = Bus_store_reservations(reservations, a, v)
    /\ UNCHANGED cpuVars

InitMem == \E code \in MemImages : Cpu_new(code)

NextMem == DramLoadCall \/ DramStoreCall \/ BusLoadCall \/ BusStoreCall

SpecMem == InitMem /\ [][NextMem]_vars

----------------------------------------------------------------------------
(* Properties of the memory interface (SpecMem)                            *)

StoreOps == {"Dram.store", "Bus.store"}

LoadOps == {"Dram.load", "Bus.load"}

\* the calls made are a store of `size` bits that returned Ok, then a load
\* of `size` bits at the same address
StoreThenLoad(size) ==
    /\ Len(calls) = 2
    /\ calls[1].op \in StoreOps /\ calls[1].size = size /\ calls[1].ret.tag = "Ok"
    /\ calls[2].op \in LoadOps /\ calls[2].size = size
    /\ calls[2].addr = calls[1].addr

\* the sum over i < n of byte[index + i] * 2^(8 i), as a u64
LittleEndian(d, index, n) ==
    [k \in ByteIx |-> IF k <= n THEN GetByte(d, index + k - 1) ELSE 0]

\* v mod 2^w, as a u64
LowBits(v, w) == [k \in ByteIx |-> IF 8 * k <= w THEN v[k] ELSE 0]

\* C2: a 64-bit store of v at an address whose eight bytes are inside DRAM,
\* followed by a 64-bit load at that address, returns exactly v.
C2_RoundTrip64 ==
    StoreThenLoad(64) => calls[2].ret = Ok(calls[1].value)

\* C3: after store(a, 64, v) the DRAM byte at index (a - DRAM_BASE) + i is
\* (v >> 8 i) & 0xff, for every i in 0..7.
C3_Store64LittleEndian ==
    (Len(calls) = 1 /\ Stored /\ calls[1].size = 64 /\ calls[1].ret.tag = "Ok")
    => \A i \in 0..7 :
          GetByte(dram, Index(calls[1].addr) + i) = calls[1].value[i + 1]

\* C4: a load of width w in {8, 16, 32, 64} at an in-range address returns
\* the zero-extended little-endian composition of the w/8 bytes stored there.
C4_LoadLittleEndian ==
    \A k \in 1..Len(calls) :
       (calls[k].op \in LoadOps /\ calls[k].ret.tag = "Ok")
       => calls[k].ret.val =
             LittleEndian(dram, Index(calls[k].addr), calls[k].size \div 8)

\* C5: for w in {8, 16, 32}, a store of v at an in-range address followed by
\* a load of the same width at that address returns v mod 2^w.
C5_RoundTripNarrow ==
    \A w \in {8, 16, 32} :
       StoreThenLoad(w) => calls[2].ret = Ok(LowBits(calls[1].value, w))

\* C5 witness: 0x1122334455667788 stored and loaded back as 32 bits at the
\* unaligned address DRAM_BASE + 1 gives 0x55667788
C5_Witness ==
    /\ StoreThenLoad(32)
    /\ calls[1].addr = At(1)
    /\ calls[1].value = <<136, 119, 102, 85, 68, 51, 34, 17>>
    /\ calls[2].ret = Ok(<<136, 119, 102, 85, 0, 0, 0, 0>>)

\* the call made by the step, when the step is a call
NewCall == calls'[Len(calls')]

\* C6: a Bus.load or Bus.store below DRAM_BASE returns an error and changes
\* no DRAM byte; at or above DRAM_BASE, in range and with a legal width, it
\* returns what Dram.load / Dram.store returns there and stores what
\* Dram.store stores.
C6_BusDecodes ==
    [][ (Len(calls') = Len(calls) + 1 /\ NewCall.op \in {"Bus.load", "Bus.store"})
        => IF ltu(NewCall.addr, DRAM_BASE)
           THEN NewCall.ret = Err /\ dram' = dram
           ELSE (NewCall.size \in Widths /\ InBounds(NewCall.addr, NewCall.size \div 8))
                => /\ NewCall.op = "Bus.load"
                         => /\ NewCall.ret = Dram_load(dram, NewCall.addr, NewCall.size)
                            /\ dram' = dram
                   /\ NewCall.op = "Bus.store"
                         => /\ NewCall.ret = Dram_store_ret(NewCall.addr, NewCall.size)
                            /\ dram' = Dram_store(dram, NewCall.addr, NewCall.size,
                                                  NewCall.value)
      ]_vars

\* C6 witness: a Bus.store at DRAM_BASE + 1 went through to DRAM and the
\* Bus.load that followed, one byte below DRAM_BASE, failed
C6_Witness ==
    /\ Len(calls) = 2
    /\ calls[1].op = "Bus.store" /\ calls[1].addr = At(1) /\ calls[1].size = 16
    /\ calls[1].ret.tag = "Ok" /\ GetByte(dram, 1) = 255 /\ GetByte(dram, 2) = 255
    /\ calls[2].op = "Bus.load" /\ ltu(calls[2].addr, DRAM_BASE)
    /\ calls[2].ret = Err

----------------------------------------------------------------------------
(* The processor: Cpu::new(code) for an image code, then Cpu::run.         *)

\* instructions with rd = x0, one or more for every opcode of Cpu::execute,
\* with the ways execute fails
X0Pool ==
    { ADDI(0, 2, 1), ADDI(5, 0, -1), LUI(0, 1), AUIPC(0, 1), JAL(0, 4),
      JAL(1, 4), JALR(0, 0, 0), JALR(0, 1, 4), JALR(0, 3, 0), CSRRS(0, RDCYCLE, 0),
      CSRRW(0, RDCYCLE, 5), LW(0, 1, -4), LW(0, 2, 0), LW(0, 0, 0),
      ADD(0, 2, 2), ADDW(0, 2, 2), EncR(59, 0, 2, 2, 2, 0), ADDIW(0, 2, 1),
      SD(2, 2, -8), BEQ(0, 0, 8), SLLI(0, 2, 33), <<0, 0, 0, 0>>,
      <<127, 0, 0, 0>> }

X0Images == { Image(<<a, b>>) : a \in X0Pool, b \in X0Pool }

\* values for mie, for mideleg and for the value written to sie, as the
\* 12-bit immediates that ADDI extends to 64 bits
MieValues == {1365, -1}

MidelegValues == {240, -256}

SieValues == {819, -1}

\* the CSR instructions on sie: x5 holds mie, x6 holds mideleg, x7 the value
SieOps ==
    { CSRRS(8, SIE, 0), CSRRC(8, SIE, 0), CSRRSI(8, SIE, 0), CSRRCI(8, SIE, 0),
      CSRRW(8, SIE, 7), CSRRW(0, SIE, 7), CSRRWI(8, SIE, 21),
      CSRRWI(0, SIE, 10), CSRRS(8, SIE, 7), CSRRC(8, SIE, 7),
      CSRRSI(0, SIE, 21), CSRRCI(8, SIE, 10), CSRRS(7, SIE, 7) }

\* csrw mie, v; csrw mideleg, m; then one instruction on sie
CsrImages ==
    { Image(<<ADDI(5, 0, v), ADDI(6, 0, m), ADDI(7, 0, x),
              CSRRW(0, MIE, 5), CSRRW(0, MIDELEG, 6), op>>) :
        v \in MieValues, m \in MidelegValues, x \in SieValues, op \in SieOps }

\* shift amounts for the 0x13 shifts; 32 and 63 set bit 25 of the word
Shamts == {0, 1, 4, 31, 32, 63}

ShiftValues == {1365, -1, -2048}

ShiftImages ==
    { Image(<<ADDI(5, 0, x), op>>) :
        x \in ShiftValues,
        op \in UNION { {SLLI(6, 5, k), SRLI(6, 5, k), SRAI(6, 5, k)} :
                       k \in Shamts } }

AuipcImages ==
    { Image(pre \o <<AUIPC(rd, imm20)>>) :
        pre \in {<<>>, <<ADDI(5, 0, 1)>>},
        rd \in {0, 2, 5},
        imm20 \in {0, 1, 32768, 524288, 1048575} }

\* 12-bit immediates, the extremes included
AddiValues == {-2048, -1365, -1, 0, 1, 1365, 2047}

\* one addi on x0, and chains of three addi on one register
AddiImages ==
    { Image(<<ADDI(k, 0, imm)>>) : k \in 1..31, imm \in AddiValues }
    \cup
    { Image(<<ADDI(k, 0, a), ADDI(k, k, b), ADDI(k, k, c)>>) :
        k \in {1, 31}, a \in {1, -1}, b \in {2, 2047}, c \in {3, -2048} }

\* jalr through x5 (a small value) or x2 (the end of DRAM), rd = rs1 included;
\* no target lies at or before the jalr
JalrImages ==
    { Image(<<ADDI(5, 0, v), JALR(d, s, imm)>>) :
        v \in {0, 16}, d \in {0, 1, 5}, s \in {2, 5}, imm \in {-2048, 0, 1, 8} }

\* csrrs / csrrc on mie (holding v) with the source x7 (holding x), rd = rs1
\* included
CsrRegImages ==
    { Image(<<ADDI(5, 0, v), CSRRW(0, MIE, 5), ADDI(7, 0, x), op>>) :
        v \in MieValues, x \in SieValues,
        op \in { CSRRS(0, MIE, 7), CSRRS(7, MIE, 7), CSRRS(8, MIE, 7),
                 CSRRC(0, MIE, 7), CSRRC(7, MIE, 7), CSRRC(8, MIE, 7) } }

\* register-register operations of opcode 0x33 with funct7 = 0 on x5 and x6
OpValues == {819, 1365, -1}

OpImages ==
    { Image(<<ADDI(5, 0, a), ADDI(6, 0, b), EncR(51, 7, f3, 5, 6, 0)>>) :
        a \in OpValues, b \in OpValues, f3 \in {4, 6, 7} }

\* a read of cycle or instret into x5 as the first or the second instruction
CounterImages ==
    { Image(pre \o <<CSRRS(5, a, 0)>>) :
        pre \in {<<>>, <<ADDI(6, 0, 1)>>}, a \in {RDCYCLE, INSTRET} }

\* jal over two sentinel writes: the first one or two are jumped over
JalSkipImages ==
    { Image(<<JAL(1, 8), ADDI(5, 0, 1), ADDI(6, 0, 2)>>),
      Image(<<JAL(1, 12), ADDI(5, 0, 1), ADDI(5, 5, 1), ADDI(6, 0, 2)>>),
      Image(<<ADDI(7, 0, 3), JAL(31, 8), ADDI(5, 0, 1), ADDI(6, 0, 2)>>) }

\* forward offsets exercising imm[10:1], imm[11] and imm[19:12]
JalForward == {4, 8, 2048, 4096, 526344, 1048574}

\* backward offsets (imm[20] set) that leave DRAM from its first word
JalBackward == {-1048576, -4, -2}

JalImages ==
    JalSkipImages
    \cup { Image(pre \o <<JAL(d, imm)>>) :
             pre \in {<<>>, <<ADDI(5, 0, 1)>>}, d \in {0, 1, 5, 31},
             imm \in JalForward }
    \cup { Image(<<JAL(d, imm)>>) : d \in {0, 1, 5, 31}, imm \in JalBackward }
    \cup { Image(<<JAL(0, 8), <<0, 0, 0, 0>>, JAL(1, -4)>>) }

\* the loop addi x5, x5, -1; bne x5, x0, -4 entered with x5 = n
LoopImage(n) ==
    Image(<<ADDI(5, 0, n), ADDI(5, 5, -1), EncB(1, 5, 0, -4)>>)

LoopCounts == 1..3

BranchValues == {-1, 0, 1}

\* offsets exercising imm[4:1], imm[10:5], imm[11] and imm[12]; the backward
\* ones leave DRAM from the third word
BranchOffsets == {-4096, -12, 8, 2052, 4094}

BranchImages ==
    { LoopImage(n) : n \in LoopCounts }
    \cup { Image(<<ADDI(5, 0, x), ADDI(6, 0, y), EncB(f3, 5, 6, imm)>>) :
             x \in BranchValues, y \in BranchValues,
             f3 \in {0, 1, 4, 5, 6, 7}, imm \in BranchOffsets }

\* csrw mie, v; csrw mideleg, m; then a CSR instruction with no source
\* (rs1 = x0, or a zero immediate) on one of six CSRs
CsrReadImages ==
    { Image(<<ADDI(5, 0, v), ADDI(6, 0, m), CSRRW(0, MIE, 5),
              CSRRW(0, MIDELEG, 6), op>>) :
        v \in MieValues, m \in MidelegValues,
        op \in UNION { {CSRRS(d, a, 0), CSRRC(d, a, 0), CSRRSI(d, a, 0),
                        CSRRCI(d, a, 0)} :
                       d \in {0, 8},
                       a \in {MIE, MIDELEG, SIE, RDCYCLE, RDTIME, INSTRET} } }

\* words on which execute returns Err: the zero word; a load and a store
\* with an undefined funct3; loads and stores at x5 + 0 or x0 + 8, below
\* DRAM_BASE; 0x13 and 0x33 words with an undefined funct3 / funct7 pair; CSR
\* words with funct3 0 and 4
ErrWords ==
    { <<0, 0, 0, 0>>,
      Enc(3, 7, 7, 5, 0), Enc(3, 5, 7, 0, 8),
      Enc(3, 7, 0, 5, 0), LW(7, 5, 0), Enc(3, 5, 3, 0, 8), Enc(3, 6, 6, 5, 0),
      EncS(35, 4, 5, 6, 0), EncS(35, 7, 0, 6, 8),
      EncS(35, 0, 5, 6, 0), EncS(35, 2, 0, 6, 8), SD(5, 6, 0),
      SLLI(7, 5, 33), Enc(19, 5, 5, 5, 512), Enc(19, 7, 1, 5, 1025),
      EncR(51, 7, 7, 5, 6, 0), EncR(51, 5, 0, 5, 6, 1), EncR(51, 7, 4, 5, 6, 32),
      Enc(115, 0, 0, 0, 0), Enc(115, 7, 0, 5, MIE), Enc(115, 5, 4, 5, MIE) }

\* x5 = a (an address below DRAM_BASE), x6 = 9, mie = a, then the word, then
\* a sentinel write
ErrImages ==
    { Image(<<ADDI(5, 0, a), ADDI(6, 0, 9), CSRRW(0, MIE, 5), w,
              ADDI(6, 0, 1)>>) :
        a \in {7, 1365}, w \in ErrWords }

Images ==
    X0Images \cup CsrImages \cup ShiftImages \cup AuipcImages \cup JalrImages
    \cup CsrRegImages \cup OpImages \cup CounterImages

Init == \E code \in Images : Cpu_new(code)

Next == run

Spec == Init /\ [][Next]_vars

InitCsr == \E code \in CsrImages : Cpu_new(code)

SpecCsr == InitCsr /\ [][Next]_vars

InitAddi == \E code \in AddiImages : Cpu_new(code)

SpecAddi == InitAddi /\ [][Next]_vars

InitJal == \E code \in JalImages : Cpu_new(code)

SpecJal == InitJal /\ [][Next]_vars

InitBranch == \E code \in BranchImages : Cpu_new(code)

SpecBranch == InitBranch /\ [][Next]_vars

InitCsrRead == \E code \in CsrReadImages : Cpu_new(code)

SpecCsrRead == InitCsrRead /\ [][Next]_vars

InitErr == \E code \in ErrImages : Cpu_new(code)

SpecErr == InitErr /\ [][Next]_vars

----------------------------------------------------------------------------
(* Properties of the processor.  A step of run retires the instruction     *)
(* inst' when execute returned Ok; the unprimed variables are the state    *)
(* before its fetch, so pc is the address of the instruction.              *)

Retired == status \in {"new", "running"} /\ status' \in {"running", "halted"}

\* the u64 `inst` that fetch returns for the instruction word w
Word(w) == w \o <<0, 0, 0, 0>>

\* the fields of an instruction, as Cpu::execute decodes them
opcode(i) == Field(i, 0, 7)

rd(i) == Field(i, 7, 5)

funct3(i) == Field(i, 12, 3)

rs1(i) == Field(i, 15, 5)

shamt(i) == Field(i, 20, 6)

funct7(i) == Field(i, 25, 7)

csr_addr(i) == Field(i, 20, 12)

\* C1: in every state a run of the processor reaches, whatever the image and
\* however the run ends, register x0 holds zero.
C1_X0Zero == regs[0] = Zero

\* run has returned at the halt on pc = 0, after `jalr x0, x3, 0` wrote its
\* link into x0
C1_Witness ==
    /\ status = "halted"
    /\ inst = Word(JALR(0, 3, 0))
    /\ pc = Zero
    /\ regs[0] = Zero

\* the CSR instructions that read their CSR: all but CSRRW/CSRRWI with rd = x0
ReadsCsr(i) == funct3(i) \in {2, 3, 6, 7} \/ (funct3(i) \in {1, 5} /\ rd(i) # 0)

\* C7: every retired CSR instruction that reads sie into rd # x0 leaves in rd
\* the value csrs[mie] & csrs[mideleg] of the state it started from, and
\* `csrrw x0, mie, rs1` / `csrrw x0, mideleg, rs1` leave regs[rs1] in that
\* slot; so after csrw mie, v and csrw mideleg, m a read of sie is v & m.
C7_SieRead ==
    [][ (Retired /\ opcode(inst') = 115) =>
          /\ (csr_addr(inst') = SIE /\ ReadsCsr(inst') /\ rd(inst') # 0) =>
                regs'[rd(inst')] = bitand(GetCsr(csrs, MIE), GetCsr(csrs, MIDELEG))
          /\ (csr_addr(inst') \in {MIE, MIDELEG} /\ funct3(inst') = 1
                /\ rd(inst') = 0) =>
                GetCsr(csrs', csr_addr(inst')) = regs[rs1(inst')] ]_vars

\* mie = 0x555 and mideleg = 0x0f0 were written and `csrrs x8, sie, x0` has
\* read 0x050
C7_Witness ==
    /\ status = "running"
    /\ inst = Word(CSRRS(8, SIE, 0))
    /\ GetCsr(csrs, MIE) = FromNat(1365)
    /\ GetCsr(csrs, MIDELEG) = FromNat(240)
    /\ regs[8] = FromNat(80)

\* the value CSRRW / CSRRWI writes
WrittenValue(i) == IF funct3(i) = 1 THEN regs[rs1(i)] ELSE FromNat(rs1(i))

\* C8: relative to the CSR file the instruction executes on (the one of the
\* state before, with this iteration's counter updates), a retired CSR
\* instruction on sie changes no slot but mie, keeps the mie bits outside
\* mideleg, and, when it is a write of x (CSRRW, CSRRWI), leaves
\* mie = (mie & ~mideleg) | (x & mideleg); the slot 0x104 is always 0.
C8_SieWrite ==
    [][ /\ GetCsr(csrs', SIE) = Zero
        /\ (Retired /\ opcode(inst') = 115 /\ csr_addr(inst') = SIE) =>
             LET before == Counters(csrs, elapsed')
                 mie == GetCsr(before, MIE)
                 mideleg == GetCsr(before, MIDELEG)
             IN  /\ csrs' = SetCsr(before, MIE, GetCsr(csrs', MIE))
                 /\ bitand(GetCsr(csrs', MIE), not(mideleg)) = bitand(mie, not(mideleg))
                 /\ GetCsr(csrs', MIDELEG) = mideleg
                 /\ funct3(inst') \in {1, 5} =>
                       GetCsr(csrs', MIE) =
                         bitor(bitand(mie, not(mideleg)),
                               bitand(WrittenValue(inst'), mideleg)) ]_vars

\* mie = 0x555, mideleg = 0x0f0, and `csrrw x0, sie, x7` with x7 = -1 has
\* left mie = 0x5f5
C8_Witness ==
    /\ status = "running"
    /\ inst = Word(CSRRW(0, SIE, 7))
    /\ regs[7] = Mask(0, XLEN - 1)
    /\ GetCsr(csrs, MIDELEG) = FromNat(240)
    /\ GetCsr(csrs, MIE) = FromNat(1525)
    /\ SIE \notin DOMAIN csrs

\* C9: a retired opcode-0x13 shift with rd # x0 leaves in rd the source
\* register shifted by shamt: to the left for slli, logically to the right
\* for srli, arithmetically to the right for srai.
C9_ShiftDirections ==
    [][ (Retired /\ opcode(inst') = 19 /\ rd(inst') # 0) =>
          /\ funct3(inst') = 1 =>
                regs'[rd(inst')] = wrapping_shl(regs[rs1(inst')], shamt(inst'))
          /\ (funct3(inst') = 5 /\ funct7(inst') = 0) =>
                regs'[rd(inst')] = wrapping_shr(regs[rs1(inst')], shamt(inst'))
          /\ (funct3(inst') = 5 /\ funct7(inst') = 32) =>
                regs'[rd(inst')] = wrapping_shr_i64(regs[rs1(inst')], shamt(inst')) ]_vars

\* C10: a retired auipc with rd # x0 leaves in rd the address of the
\* instruction plus the sign-extended inst & 0xfffff000.
C10_Auipc ==
    [][ (Retired /\ opcode(inst') = 23 /\ rd(inst') # 0) =>
          regs'[rd(inst')] =
            wrapping_add(pc, sext(bitand(inst', Mask(12, 31)), 32)) ]_vars

\* C11: the step that executes `jalr x0, x0, 0` leaves pc = 0 and ends the
\* loop at the halt, so the word after it in memory is never fetched.
C11_JalrHalts ==
    [][ (Retired /\ inst' = Word(JALR(0, 0, 0))) =>
          (pc' = Zero /\ status' = "halted") ]_vars

\* the step is an iteration of the loop whose fetch returned the word inst'
Fetched == status \in {"new", "running"} /\ fetch(dram, pc).tag = "Ok"

\* neither `+= 1` of the iteration's counter updates overflows
CountersFit == ~Overflows(csrs, RDCYCLE) /\ ~Overflows(csrs, INSTRET)

\* C12: whatever word is fetched, run does not panic: the word is retired or
\* it stops the loop and run returns.  (Loads and stores, which can also
\* leave DRAM, and an overflowing counter are set aside: the statement is
\* about the decoding of the word.)
C12_RunReturns ==
    [][ (Fetched /\ CountersFit /\ opcode(inst') \notin {3, 35}) =>
          status' # "panicked" ]_vars

\* the word is a CSR instruction on the CSR at address a
OnCsr(i, a) == opcode(i) = 115 /\ csr_addr(i) = a

\* C13: an instruction that does not address CSR 0xC02 adds exactly 1 to
\* instret when it is retired and leaves instret as it was when its execution
\* fails, so that instret counts the retired instructions.
C13_InstretCountsRetired ==
    [][ (Fetched /\ CountersFit /\ ~OnCsr(inst', INSTRET)) =>
          /\ Retired =>
                GetCsr(csrs', INSTRET) = wrapping_add(GetCsr(csrs, INSTRET), FromNat(1))
          /\ status' = "execute_failed" =>
                GetCsr(csrs', INSTRET) = GetCsr(csrs, INSTRET) ]_vars

\* C14: in every state, whatever the program (CSR instructions on 0xC00 and
\* 0xC02 included), the cycle counter equals the instret counter.
C14_CycleTracksInstret == GetCsr(csrs, RDCYCLE) = GetCsr(csrs, INSTRET)

\* sext64 of the 12-bit immediate inst[31:20]
SextImm12(i) ==
    IF Field(i, 20, 12) < 2048
    THEN FromNat(Field(i, 20, 12))
    ELSE wrapping_sub(FromNat(Field(i, 20, 12)), FromNat(4096))

\* C15: a retired `addi rd, rs1, imm` with rd # x0 adds sext64(imm) to the
\* value of rs1, mod 2^64, puts the sum in rd (sext64(imm) itself when rs1 is
\* x0) and changes no other register; so a chain of addi on one register
\* accumulates its immediates and the other registers keep the values of
\* Cpu::new.
C15_Addi ==
    [][ (Retired /\ opcode(inst') = 19 /\ funct3(inst') = 0 /\ rd(inst') # 0) =>
          /\ regs' = [regs EXCEPT ![rd(inst')] =
                        wrapping_add(regs[rs1(inst')], SextImm12(inst'))]
          /\ rs1(inst') = 0 => regs'[rd(inst')] = SextImm12(inst') ]_vars

\* addi x31, x0, 1; addi x31, x31, 2; addi x31, x31, 3 have run and the zero
\* word after them has ended the run: x31 = 6, x2 = DRAM_BASE + DRAM_SIZE,
\* every other register 0
C15_Witness ==
    /\ status = "execute_failed"
    /\ dram = Dram_new(Image(<<ADDI(31, 0, 1), ADDI(31, 31, 2), ADDI(31, 31, 3)>>))
    /\ regs = [Cpu_new_regs EXCEPT ![31] = FromNat(6)]

\* C16: a retired jalr with rs1 # x0 leaves pc = (regs[rs1] + sext(imm)) & ~1,
\* with the value regs[rs1] had before the instruction (also when rd = rs1),
\* and leaves in rd # x0 the address of the jalr plus 4.
C16_Jalr ==
    [][ (Retired /\ opcode(inst') = 103 /\ rs1(inst') # 0) =>
          /\ pc' = bitand(wrapping_add(regs[rs1(inst')], SextImm12(inst')),
                          Mask(1, XLEN - 1))
          /\ rd(inst') # 0 => regs'[rd(inst')] = wrapping_add(pc, FromNat(4)) ]_vars

\* C17: a retired csrrs / csrrc with rs1 # x0 leaves in rd # x0 the value old
\* the CSR had when the instruction executed, and writes to the CSR old | s
\* (csrrs) or old & s (csrrc), s being the value of regs[rs1] before the
\* instruction, also when rd = rs1.
C17_CsrSetClear ==
    [][ (Retired /\ opcode(inst') = 115 /\ funct3(inst') \in {2, 3}
           /\ rs1(inst') # 0) =>
          LET before == Counters(csrs, elapsed')
              old == load_csr(before, csr_addr(inst'))
              s == regs[rs1(inst')]
          IN  /\ rd(inst') # 0 => regs'[rd(inst')] = old
              /\ csrs' = store_csr(before, csr_addr(inst'),
                                   IF funct3(inst') = 2 THEN bitor(old, s)
                                                        ELSE bitand(old, s)) ]_vars

\* C18: a fetched slli, srli or srai of opcode 0x13 whose 6-bit shift amount
\* is in 32..63 (instruction bit 25 set) retires and leaves in rd # x0 the
\* value of regs[rs1] shifted by that amount.
C18_WideShamt ==
    [][ (Fetched /\ CountersFit /\ opcode(inst') = 19 /\ shamt(inst') >= 32
           /\ \/ funct3(inst') = 1 /\ Field(inst', 26, 6) = 0
              \/ funct3(inst') = 5 /\ Field(inst', 26, 6) \in {0, 16}) =>
          /\ Retired
          /\ rd(inst') # 0 =>
               regs'[rd(inst')] =
                 IF funct3(inst') = 1
                 THEN wrapping_shl(regs[rs1(inst')], shamt(inst'))
                 ELSE IF Field(inst', 26, 6) = 0
                      THEN wrapping_shr(regs[rs1(inst')], shamt(inst'))
                      ELSE wrapping_shr_i64(regs[rs1(inst')], shamt(inst')) ]_vars

\* C19: a fetched instruction of opcode 0x33 with funct7 = 0 and funct3 = 6
\* retires and writes regs[rs1] | regs[rs2] to rd # x0; with funct3 = 7 it
\* retires and writes regs[rs1] & regs[rs2] to rd # x0.
C19_OrAnd ==
    [][ (Fetched /\ CountersFit /\ opcode(inst') = 51 /\ funct7(inst') = 0
           /\ funct3(inst') \in {6, 7} /\ rd(inst') # 0) =>
          /\ Retired
          /\ regs'[rd(inst')] =
               IF funct3(inst') = 6
               THEN bitor(regs[rs1(inst')], regs[Field(inst', 20, 5)])
               ELSE bitand(regs[rs1(inst')], regs[Field(inst', 20, 5)]) ]_vars

\* C20: a retired CSR read (csrrs with rs1 = x0) of cycle or instret into
\* rd # x0 observes the value the counter had before the instruction, the
\* number of instructions retired before it: the first instruction reads 0.
C20_CountersAfterExecute ==
    [][ (Retired /\ opcode(inst') = 115 /\ funct3(inst') = 2
           /\ rs1(inst') = 0 /\ rd(inst') # 0
           /\ csr_addr(inst') \in {RDCYCLE, INSTRET}) =>
          /\ regs'[rd(inst')] = GetCsr(csrs, csr_addr(inst'))
          /\ status = "new" => regs'[rd(inst')] = Zero ]_vars

\* the J-immediate of i: inst[31], inst[19:12], inst[20], inst[30:21] put at
\* bits 20, 19:12, 11, 10:1, bit 0 zero, sign-extended from bit 20
JImm(i) ==
    LET v == 1048576 * Field(i, 31, 1) + 4096 * Field(i, 12, 8)
               + 2048 * Field(i, 20, 1) + 2 * Field(i, 21, 10)
    IN  IF v < 1048576 THEN FromNat(v)
        ELSE wrapping_sub(FromNat(v), FromNat(2097152))

\* C21: a retired jal at address A (the pc before the step) with rd # x0
\* leaves regs[rd] = A + 4 and pc = A + sext(J-immediate) mod 2^64; the
\* sentinel write to x5 between A + 4 and the target is never executed.
C21_Jal ==
    /\ [][ (Retired /\ opcode(inst') = 111 /\ rd(inst') # 0) =>
             /\ regs'[rd(inst')] = wrapping_add(pc, FromNat(4))
             /\ pc' = wrapping_add(pc, JImm(inst')) ]_vars
    /\ [](dram \in {Dram_new(code) : code \in JalSkipImages} => regs[5] = Zero)

C21_Witness ==
    /\ dram = Dram_new(Image(<<ADDI(7, 0, 3), JAL(31, 8), ADDI(5, 0, 1),
                               ADDI(6, 0, 2)>>))
    /\ regs[31] = wrapping_add(DRAM_BASE, FromNat(8))
    /\ regs[6] = FromNat(2)
    /\ regs[5] = Zero
    /\ status = "execute_failed"

\* the B-immediate of i: inst[31], inst[7], inst[30:25], inst[11:8] put at
\* bits 12, 11, 10:5, 4:1, bit 0 zero, sign-extended from bit 12
BImm(i) ==
    LET v == 4096 * Field(i, 31, 1) + 2048 * Field(i, 7, 1)
               + 32 * Field(i, 25, 6) + 2 * Field(i, 8, 4)
    IN  IF v < 4096 THEN FromNat(v)
        ELSE wrapping_sub(FromNat(v), FromNat(8192))

\* the condition of the branch with funct3 f on the operands x and y
Taken(f, x, y) ==
    CASE f = 0 -> x = y
      [] f = 1 -> x # y
      [] f = 4 -> lts(x, y)
      [] f = 5 -> ~lts(x, y)
      [] f = 6 -> ltu(x, y)
      [] f = 7 -> ~ltu(x, y)
      [] OTHER -> FALSE

OtherCsrsKept ==
    \A a \in (DOMAIN csrs \cup DOMAIN csrs') \ {RDCYCLE, RDTIME, INSTRET} :
        GetCsr(csrs', a) = GetCsr(csrs, a)

\* C22: a retired branch at address A (the pc before the step) leaves
\* pc = A + sext(B-immediate) mod 2^64 when its condition holds and A + 4
\* otherwise, and changes no register, no CSR but the counters and no DRAM
\* byte; the loop addi x5, x5, -1; bne x5, x0, -4 entered with x5 = n > 0
\* never starts more than 2n + 2 instructions (the addi that loads n, n times
\* the pair, and the zero word after the loop) and once the run has ended
\* regs[5] = 0 and exactly 2n + 2 were started, n of them the branch.
C22_Branch ==
    /\ [][ (Retired /\ opcode(inst') = 99) =>
             /\ pc' = IF Taken(funct3(inst'), regs[rs1(inst')],
                               regs[Field(inst', 20, 5)])
                      THEN wrapping_add(pc, BImm(inst'))
                      ELSE wrapping_add(pc, FromNat(4))
             /\ regs' = regs
             /\ dram' = dram
             /\ OtherCsrsKept ]_vars
    /\ [](\A n \in LoopCounts :
            dram = Dram_new(LoopImage(n)) =>
              /\ Field(GetCsr(csrs, INSTRET), 0, 8) <= 2 * n + 2
              /\ status \notin {"new", "running"} =>
                   /\ status = "execute_failed"
                   /\ regs[5] = Zero
                   /\ GetCsr(csrs, INSTRET) = FromNat(2 * n + 2))

C22_Witness ==
    /\ dram = Dram_new(LoopImage(3))
    /\ status = "execute_failed"
    /\ regs[5] = Zero
    /\ GetCsr(csrs, INSTRET) = FromNat(8)

\* C23: a retired csrrs / csrrc with rs1 = x0, or csrrsi / csrrci with a zero
\* immediate, changes no CSR but the counters (mie included when the address
\* is sie) and leaves in rd # x0 the value read from the CSR file the
\* instruction executes on (mie & mideleg for sie).
C23_NoSourceNoWrite ==
    [][ (Retired /\ opcode(inst') = 115 /\ funct3(inst') \in {2, 3, 6, 7}
           /\ rs1(inst') = 0) =>
          /\ OtherCsrsKept
          /\ rd(inst') # 0 =>
               regs'[rd(inst')] =
                 load_csr(Counters(csrs, elapsed'), csr_addr(inst')) ]_vars

C23_Witness ==
    /\ dram = Dram_new(Image(<<ADDI(5, 0, 1365), ADDI(6, 0, 240),
                               CSRRW(0, MIE, 5), CSRRW(0, MIDELEG, 6),
                               CSRRC(8, SIE, 0)>>))
    /\ regs[8] = FromNat(80)
    /\ GetCsr(csrs, MIE) = FromNat(1365)
    /\ status = "execute_failed"

\* C24: when a retired instruction leaves pc = 0 the loop exits with that
\* step (run returns Ok); when the loop is about to fetch at 0 < pc <
\* DRAM_BASE the fetch fails and the loop exits (run returns Ok) with no
\* instruction executed and regs, csrs (counters included), dram and pc
\* unchanged.
C24_LeavesDramDownward ==
    [][ /\ (Retired /\ pc' = Zero) => status' = "halted"
        /\ (status \in {"new", "running"} /\ pc # Zero /\ ltu(pc, DRAM_BASE)) =>
             /\ status' = "fetch_failed"
             /\ UNCHANGED <<regs, csrs, dram, pc, inst>> ]_vars

C24_Witness ==
    /\ dram = Dram_new(Image(<<ADDI(5, 0, 0), JALR(1, 5, 8)>>))
    /\ status = "fetch_failed"
    /\ pc = FromNat(8)
    /\ regs[1] = wrapping_add(DRAM_BASE, FromNat(8))
    /\ GetCsr(csrs, INSTRET) = FromNat(2)

\* C25: a step on which execute returns an error changes no general-purpose
\* register, no DRAM byte and no CSR but cycle / instret / time, and leaves
\* pc at the address of the failing instruction + 4; the run has then ended:
\* no further step is taken.
C25_ErrorLeavesState ==
    [][ /\ (status \in {"new", "running"} /\ status' = "execute_failed") =>
             /\ regs' = regs
             /\ dram' = dram
             /\ OtherCsrsKept
             /\ pc' = wrapping_add(pc, FromNat(4))
        /\ status # "execute_failed" ]_vars

C25_Witness ==
    /\ dram = Dram_new(Image(<<ADDI(5, 0, 7), ADDI(6, 0, 9), CSRRW(0, MIE, 5),
                               LW(7, 5, 0), ADDI(6, 0, 1)>>))
    /\ status = "execute_failed"
    /\ pc = wrapping_add(DRAM_BASE, FromNat(16))
    /\ regs[7] = Zero
    /\ regs[6] = FromNat(9)
    /\ GetCsr(csrs, MIE) = FromNat(7)

====
